---- MODULE Spec2Model ----
(***************************************************************************)
(* RadioSpiral Player: the stream-playback controller.                     *)
(*                                                                         *)
(* Three builds of the controller are modelled, selected by rev:           *)
(*   "stop"    StreamPlayer with Stop/IsMuted  (radioplayer.go 1-187,      *)
(*             main.go 1-331)                                              *)
(*   "pause"   StreamPlayer with Pause and the pipe hand-off channel       *)
(*             (radioplayer.go 189-357, main.go 333-827)                   *)
(*   "mplayer" MPlayer, the line-command variant (unnamed/part_002)        *)
(*                                                                         *)
(* Volumes are counted in steps of 0.05: 0 is 0.0 and VolMax is 1.0.       *)
(* Handles (otoPlayer, command, in, out, audio) are 0 for nil and k for    *)
(* the resources of the k-th decoder process spawned; args is the argument *)
(* list of the exec.Cmd that command points to.                            *)
(***************************************************************************)
EXTENDS Integers, Sequences, FiniteSets, TLC

VARIABLES
    rev,        \* which build runs
    player,     \* the StreamPlayer struct
    mplayer,    \* the MPlayer struct
    sess,       \* OS resources of every decoder spawned so far
    vol,        \* otoPlayer.Volume() of the current sink player
    handoffs,   \* goroutines spawned by Load/Play to send the pipe on pipe_chan
    ctxCount,   \* number of oto.NewContext calls
    panicked,   \* the process died of a panic
    lastOp,     \* history: the last controller method called
    preSt,      \* history: the controller state in which it was called
    reps,       \* history: 2 when the call before it was of the same method
    run,        \* history: the current run of Mute or IncVolume/DecVolume calls
    playStatus, \* main: the status the window shows
    clickPc,    \* main: position of the play-button callback
    reader,     \* main: the global cancelable reader
    parserPc,   \* main: position of the goroutine that reads the diagnostics
    out_pipe,   \* main: the pipe that goroutine received
    nowPlaying, \* main: text of nowPlayingLabel
    exited,     \* main: the window was closed and main returned
    pline,      \* parser on its own: the diagnostic line the decoder wrote
    pinput,     \* parser on its own: bytes of the line still in the pipe
    pcuts,      \* parser on its own: sizes of the reads made so far
    pstarted,   \* parser on its own: playback-started events produced
    ptitles,    \* parser on its own: titles handed to the label
    aurl,       \* argument list on its own: the characters of the URL
    argv        \* argument list on its own: the list built for exec.Command

ctlVars == <<player, mplayer, sess, vol, handoffs, ctxCount, panicked>>

histVars == <<lastOp, preSt, reps, run>>

uiVars == <<playStatus, clickPc, reader, parserPc, out_pipe, nowPlaying, exited>>

parseVars == <<pline, pinput, pcuts, pstarted, ptitles, aurl, argv>>

vars == <<rev, player, mplayer, sess, vol, handoffs, ctxCount, panicked,
          lastOp, preSt, reps, run, playStatus, clickPc, reader, parserPc, out_pipe,
          nowPlaying, exited, pline, pinput, pcuts, pstarted, ptitles,
          aurl, argv>>

----------------------------------------------------------------------------
(* Bounds *)

MaxLoads == 2       \* decoder processes spawned in one run
MaxRun == 3         \* longest run of equal volume calls that is tracked
MaxWrites == 1      \* command bytes written to one mplayer's stdin
MaxDiag == 2        \* diagnostic chunks one decoder writes
MaxChunks == 3      \* reads one diagnostic line is split across
MaxUrlLen == 5      \* characters of a URL whose argument list is built
MaxExits == 1       \* decoders that end by themselves in one run
MaxCtlLoads == 1    \* decoders spawned when the methods are called freely

(* Program constants *)

VolMax == 20        \* 1.0 in steps of 0.05
VolStep == 1        \* 0.05
BufSize == 255      \* var data [255]byte

RADIOSPIRAL_STREAM == "https://radiospiral.radio/stream.mp3"

Urls == {RADIOSPIRAL_STREAM, "https://radiospiral.radio/stream.m3u"}

----------------------------------------------------------------------------
(* The state as one value, so that a method is a function on it *)

W == [player |-> player, mplayer |-> mplayer, sess |-> sess, vol |-> vol,
      handoffs |-> handoffs, ctxCount |-> ctxCount, panicked |-> panicked]

Apply(w) ==
    /\ player' = w.player
    /\ mplayer' = w.mplayer
    /\ sess' = w.sess
    /\ vol' = w.vol
    /\ handoffs' = w.handoffs
    /\ ctxCount' = w.ctxCount
    /\ panicked' = w.panicked

NewStreamPlayer ==
    [otoPlayer |-> 0, command |-> 0, args |-> <<>>, in |-> 0, out |-> 0,
     audio |-> 0, stream_url |-> "", currentVolume |-> 0, paused |-> FALSE,
     otoContext |-> FALSE]

NewMPlayer ==
    [is_playing |-> FALSE, stream_url |-> "", command |-> 0, args |-> <<>>,
     in |-> 0, out |-> 0]

\* exec.Command + StdinPipe/StdoutPipe/StderrPipe + Start: the resources of a
\* decoder. A failed Start leaves no process and closes the descriptors.
\* History kept with them: marker, the decoder has written the start marker;
\* started, how often the reading goroutine set Playing from this pipe;
\* early, it handed over a title from this pipe before it did so.
NewProcess(ok) ==
    [running |-> ok, sink |-> "none", inOpen |-> ok, outOpen |-> ok,
     audioOpen |-> ok, stdin |-> <<>>, stderr |-> <<>>, wrote |-> 0,
     marker |-> FALSE, started |-> 0, early |-> FALSE]

\* go func() { player.pipe_chan <- player.out }(): the value sent is read
\* when the goroutine runs, so it starts unevaluated (index 0).
SpawnHandoff(h) == [h EXCEPT ![0] = @ + 1]

----------------------------------------------------------------------------
(* The decoder's argument list. Text that the code inspects is a sequence  *)
(* of one-character strings.                                                *)

StreamMp3Text ==
    <<"h", "t", "t", "p", "s", ":", "/", "/", "r", "a", "d", "i", "o", "s",
      "p", "i", "r", "a", "l", ".", "r", "a", "d", "i", "o", "/", "s", "t",
      "r", "e", "a", "m", ".", "m", "p", "3">>

StreamM3uText ==
    <<"h", "t", "t", "p", "s", ":", "/", "/", "r", "a", "d", "i", "o", "s",
      "p", "i", "r", "a", "l", ".", "r", "a", "d", "i", "o", "/", "s", "t",
      "r", "e", "a", "m", ".", "m", "3", "u">>

\* the characters of the URLs the controller is given
UrlText ==
    [u \in Urls |-> IF u = RADIOSPIRAL_STREAM THEN StreamMp3Text
                    ELSE StreamM3uText]

M3uSuffix == <<".", "m", "3", "u">>

PlsSuffix == <<".", "p", "l", "s">>

PlaylistFlag == <<"-", "p", "l", "a", "y", "l", "i", "s", "t">>

NodispFlag == <<"-", "n", "o", "d", "i", "s", "p">>

LoglevelFlag == <<"-", "l", "o", "g", "l", "e", "v", "e", "l">>

VerboseArg == <<"v", "e", "r", "b", "o", "s", "e">>

InputFlag == <<"-", "i">>

FormatFlag == <<"-", "f">>

WavArg == <<"w", "a", "v">>

StdoutArg == <<"-">>

\* strings.HasSuffix
HasSuffix(s, suffix) ==
    /\ Len(s) >= Len(suffix)
    /\ SubSeq(s, Len(s) - Len(suffix) + 1, Len(s)) = suffix

\* the test made with strings.Contains instead of strings.HasSuffix
IsPlaylistAnywhere(stream_url) ==
    \E i \in 1..(Len(stream_url) - 3) :
        SubSeq(stream_url, i, i + 3) \in {M3uSuffix, PlsSuffix}

\* is_playlist
IsPlaylist(stream_url) ==
    HasSuffix(stream_url, M3uSuffix) \/ HasSuffix(stream_url, PlsSuffix)

\* the arguments StreamPlayer.Load gives exec.Command after player_name
FfmpegArgs(stream_url) ==
    IF IsPlaylist(stream_url)
    THEN <<NodispFlag, LoglevelFlag, VerboseArg, PlaylistFlag, stream_url>>
    ELSE <<LoglevelFlag, VerboseArg, InputFlag, stream_url, FormatFlag,
           WavArg, StdoutArg>>

\* the arguments MPlayer.Play gives exec.Command after player_name
MplayerArgs(stream_url) ==
    IF IsPlaylist(stream_url)
    THEN <<PlaylistFlag, stream_url>>
    ELSE <<stream_url>>

----------------------------------------------------------------------------
(* oto.Player, as the controller uses it *)

\* otoContext.NewPlayer: a player starts paused, at volume 1.0
OtoNewPlayer(w, k) ==
    [w EXCEPT !.sess[k].sink = "paused", !.vol = VolMax]

OtoIsPlaying(w) == w.sess[w.player.otoPlayer].sink = "play"

\* Play only leaves the paused state; a closed player stays closed
OtoPlay(w) ==
    IF w.sess[w.player.otoPlayer].sink = "paused"
    THEN [w EXCEPT !.sess[w.player.otoPlayer].sink = "play"]
    ELSE w

OtoPause(w) ==
    IF w.sess[w.player.otoPlayer].sink = "play"
    THEN [w EXCEPT !.sess[w.player.otoPlayer].sink = "paused"]
    ELSE w

OtoClose(w) == [w EXCEPT !.sess[w.player.otoPlayer].sink = "closed"]

OtoSetVolume(w, v) == [w EXCEPT !.vol = v]

\* io.Closer.Close on a pipe handle: a nil handle panics, and closing
\* twice only returns an error
CloseIn(w, k) ==
    IF w.panicked THEN w
    ELSE IF k = 0 THEN [w EXCEPT !.panicked = TRUE]
    ELSE [w EXCEPT !.sess[k].inOpen = FALSE]

CloseOut(w, k) ==
    IF w.panicked THEN w
    ELSE IF k = 0 THEN [w EXCEPT !.panicked = TRUE]
    ELSE [w EXCEPT !.sess[k].outOpen = FALSE]

CloseAudio(w, k) ==
    IF w.panicked THEN w
    ELSE IF k = 0 THEN [w EXCEPT !.panicked = TRUE]
    ELSE [w EXCEPT !.sess[k].audioOpen = FALSE]

\* in.Write: the byte reaches the decoder only through an open pipe
WriteIn(w, k, b) ==
    IF w.sess[k].inOpen THEN [w EXCEPT !.sess[k].stdin = Append(@, b)] ELSE w

----------------------------------------------------------------------------
(* StreamPlayer *)

IsPlaying(w) ==
    IF w.player.otoPlayer = 0 THEN FALSE ELSE OtoIsPlaying(w)

\* Load's shared part with a context created by every call
LoadBodyNewContext(w, stream_url, ok) ==
    LET k == Len(w.sess) + 1
        w1 == [w EXCEPT !.sess = Append(@, NewProcess(ok)),
                        !.player.command = k,
                        !.player.args = FfmpegArgs(UrlText[stream_url]),
                        !.player.in = k,
                        !.player.audio = k,
                        !.player.out = k]
    IN  IF ~ok THEN [w1 EXCEPT !.panicked = TRUE]
        ELSE LET w2 == [w1 EXCEPT !.player.stream_url = stream_url,
                                  !.player.otoContext = TRUE,
                                  !.ctxCount = @ + 1,
                                  !.player.otoPlayer = k]
                 w3 == OtoNewPlayer(w2, k)
             IN  [w3 EXCEPT !.player.currentVolume = w3.vol]

\* The part of Load both revisions share: spawn the decoder, create the
\* context once, create the sink player and snapshot its volume.
\* ok is whether the decoder could be started; check(err) panics otherwise.
LoadBody(w, stream_url, ok) ==
    LET k == Len(w.sess) + 1
        w1 == [w EXCEPT !.sess = Append(@, NewProcess(ok)),
                        !.player.command = k,
                        !.player.args = FfmpegArgs(UrlText[stream_url]),
                        !.player.in = k,
                        !.player.audio = k,
                        !.player.out = k]
    IN  IF ~ok THEN [w1 EXCEPT !.panicked = TRUE]
        ELSE LET w2 == [w1 EXCEPT !.player.stream_url = stream_url,
                                  !.player.otoContext = TRUE,
                                  !.ctxCount = IF w.player.otoContext
                                               THEN @ ELSE @ + 1,
                                  !.player.otoPlayer = k]
                 w3 == OtoNewPlayer(w2, k)
             IN  [w3 EXCEPT !.player.currentVolume = w3.vol]

LoadStop(w, stream_url, ok) ==
    IF w.player.otoPlayer = 0 \/ ~OtoIsPlaying(w)
    THEN LoadBody(w, stream_url, ok)
    ELSE w

\* Load without its guard
LoadPauseNoGuard(w, stream_url, ok) ==
    LET w1 == LoadBody(w, stream_url, ok)
    IN  IF w1.panicked THEN w1
        ELSE [w1 EXCEPT !.player.paused = FALSE,
                        !.handoffs = SpawnHandoff(@)]

LoadPause(w, stream_url, ok) ==
    IF w.player.otoPlayer = 0 \/ ~OtoIsPlaying(w)
    THEN LET w1 == LoadBody(w, stream_url, ok)
         IN  IF w1.panicked THEN w1
             ELSE [w1 EXCEPT !.player.paused = FALSE,
                             !.handoffs = SpawnHandoff(@)]
    ELSE w

Load(r, w, stream_url, ok) ==
    IF r = "stop" THEN LoadStop(w, stream_url, ok)
    ELSE LoadPause(w, stream_url, ok)

Play(r, w, ok) ==
    IF w.player.otoPlayer = 0 THEN w
    ELSE IF ~OtoIsPlaying(w)
         THEN LET w1 == IF w.player.command = 0
                        THEN Load(r, w, w.player.stream_url, ok)
                        ELSE w
              IN  IF w1.panicked THEN w1 ELSE OtoPlay(w1)
         ELSE w

ClosePause(w) ==
    IF IsPlaying(w)
    THEN LET w1 == OtoClose(w)
             w2 == CloseIn(w1, w.player.in)
             w3 == CloseOut(w2, w.player.out)
             w4 == CloseAudio(w3, w.player.audio)
         IN  IF w4.panicked THEN w4
             ELSE [w4 EXCEPT !.player.stream_url = ""]
    ELSE w

\* Close guarded by "a player was loaded" instead of "the player plays"
CloseStopLoadedGuard(w) ==
    IF w.player.otoPlayer # 0
    THEN LET w1 == OtoClose(w)
             w2 == CloseIn(w1, w.player.in)
             w3 == CloseOut(w2, w.player.out)
             w4 == CloseAudio(w3, w.player.audio)
         IN  IF w4.panicked THEN w4
             ELSE [w4 EXCEPT !.player.out = 0, !.player.stream_url = ""]
    ELSE w

CloseStop(w) ==
    IF IsPlaying(w)
    THEN LET w1 == OtoClose(w)
             w2 == CloseIn(w1, w.player.in)
             w3 == CloseOut(w2, w.player.out)
             w4 == CloseAudio(w3, w.player.audio)
         IN  IF w4.panicked THEN w4
             ELSE [w4 EXCEPT !.player.out = 0, !.player.stream_url = ""]
    ELSE w

Close(r, w) == IF r = "stop" THEN CloseStop(w) ELSE ClosePause(w)

Stop(w) == IF IsPlaying(w) THEN CloseStop(w) ELSE w

\* IsMuted dereferences otoPlayer without a nil check
IsMuted(w) ==
    IF w.player.otoPlayer = 0 THEN [w EXCEPT !.panicked = TRUE] ELSE w

\* Mute that snapshots the volume after it has set it to zero
MuteSavesAfter(w) ==
    IF IsPlaying(w)
    THEN IF w.vol > 0
         THEN LET w1 == OtoSetVolume(w, 0)
              IN  [w1 EXCEPT !.player.currentVolume = w1.vol]
         ELSE OtoSetVolume(w, w.player.currentVolume)
    ELSE w

Mute(w) ==
    IF IsPlaying(w)
    THEN IF w.vol > 0
         THEN OtoSetVolume([w EXCEPT !.player.currentVolume = w.vol], 0)
         ELSE OtoSetVolume(w, w.player.currentVolume)
    ELSE w

Pause(w) ==
    IF IsPlaying(w)
    THEN IF ~w.player.paused
         THEN OtoPause([w EXCEPT !.player.paused = TRUE])
         ELSE w
    ELSE w

\* IncVolume that does not pass the new volume on to the sink
IncVolumeNoSet(w) ==
    IF IsPlaying(w)
    THEN LET v == w.player.currentVolume + VolStep
             c == IF v >= VolMax THEN VolMax ELSE v
         IN  [w EXCEPT !.player.currentVolume = c]
    ELSE w

\* IncVolume without the upper clamp
IncVolumeNoClamp(w) ==
    IF IsPlaying(w)
    THEN LET c == w.player.currentVolume + VolStep
         IN  OtoSetVolume([w EXCEPT !.player.currentVolume = c], c)
    ELSE w

IncVolume(w) ==
    IF IsPlaying(w)
    THEN LET v == w.player.currentVolume + VolStep
             c == IF v >= VolMax THEN VolMax ELSE v
         IN  OtoSetVolume([w EXCEPT !.player.currentVolume = c], c)
    ELSE w

\* DecVolume guarded by "a player was loaded" instead of "the player plays"
DecVolumeLoadedGuard(w) ==
    IF w.player.otoPlayer # 0
    THEN LET v == w.player.currentVolume - VolStep
             c == IF v <= 0 THEN 0 ELSE v
         IN  OtoSetVolume([w EXCEPT !.player.currentVolume = c], c)
    ELSE w

\* DecVolume with a step of 0.1
DecVolumeBigStep(w) ==
    IF IsPlaying(w)
    THEN LET v == w.player.currentVolume - 2 * VolStep
             c == IF v <= 0 THEN 0 ELSE v
         IN  OtoSetVolume([w EXCEPT !.player.currentVolume = c], c)
    ELSE w

DecVolume(w) ==
    IF IsPlaying(w)
    THEN LET v == w.player.currentVolume - VolStep
             c == IF v <= 0 THEN 0 ELSE v
         IN  OtoSetVolume([w EXCEPT !.player.currentVolume = c], c)
    ELSE w

----------------------------------------------------------------------------
(* MPlayer *)

MPlay(w, stream_url, ok) ==
    IF ~w.mplayer.is_playing
    THEN LET k == Len(w.sess) + 1
             w1 == [w EXCEPT !.sess = Append(@, NewProcess(ok)),
                             !.mplayer.command = k,
                             !.mplayer.args = MplayerArgs(UrlText[stream_url]),
                             !.mplayer.in = k,
                             !.mplayer.out = k]
         IN  IF ~ok THEN [w1 EXCEPT !.panicked = TRUE]
             ELSE [w1 EXCEPT !.mplayer.is_playing = TRUE,
                             !.mplayer.stream_url = stream_url,
                             !.handoffs = SpawnHandoff(@)]
    ELSE w

MClose(w) ==
    IF w.mplayer.is_playing
    THEN LET w1 == WriteIn(w, w.mplayer.in, "q")
             w2 == CloseIn(w1, w.mplayer.in)
             w3 == CloseOut(w2, w.mplayer.out)
         IN  [w3 EXCEPT !.mplayer.is_playing = FALSE,
                        !.mplayer.command = 0,
                        !.mplayer.args = <<>>,
                        !.mplayer.stream_url = ""]
    ELSE w

MCommand(w, b) ==
    IF w.mplayer.is_playing THEN WriteIn(w, w.mplayer.in, b) ELSE w

MMute(w) == MCommand(w, "m")
MPause(w) == MCommand(w, "p")
MIncVolume(w) == MCommand(w, "*")
MDecVolume(w) == MCommand(w, "/")

----------------------------------------------------------------------------
(* The play state of the controller, read off its fields *)

CtlState(r, w) ==
    IF r = "mplayer"
    THEN IF w.mplayer.is_playing THEN "Playing" ELSE "Stopped"
    ELSE IF w.player.otoPlayer = 0 THEN "Stopped"
    ELSE IF w.sess[w.player.otoPlayer].sink = "closed" THEN "Stopped"
    ELSE IF w.sess[w.player.otoPlayer].sink = "play" THEN "Playing"
    ELSE IF w.player.paused THEN "Paused"
    ELSE "Loading"

\* A decoder is live from its start until its pipes have been closed
Live(s) == s.running /\ (s.inOpen \/ s.outOpen \/ s.audioOpen)

\* A session is released when its pipes and its sink player are closed
Released(s) ==
    ~s.inOpen /\ ~s.outOpen /\ ~s.audioOpen /\ s.sink \in {"closed", "none"}

LiveSet(ss) == {k \in 1..Len(ss) : Live(ss[k])}

----------------------------------------------------------------------------
(* History of the calls, for the claims that speak of sequences of calls *)

NoRun == [kind |-> "none", c0 |-> 0, s0 |-> 0, a |-> 0, b |-> 0]

StartRun(kind, w) ==
    [kind |-> kind, c0 |-> w.player.currentVolume, s0 |-> w.vol,
     a |-> 1, b |-> 0]

\* a: calls of Mute, or of IncVolume; b: calls of DecVolume after them;
\* c0, s0: currentVolume and the sink volume when the run began
NextRun(op, w) ==
    IF rev # "mplayer" /\ IsPlaying(w)
    THEN CASE op = "Mute" ->
                IF run.kind = "mute" /\ run.a < MaxRun
                THEN [run EXCEPT !.a = @ + 1]
                ELSE StartRun("mute", w)
           [] op = "IncVolume" ->
                IF run.kind = "vol" /\ run.b = 0 /\ run.a < MaxRun
                THEN [run EXCEPT !.a = @ + 1]
                ELSE StartRun("vol", w)
           [] op = "DecVolume" ->
                IF run.kind = "vol" /\ run.b < run.a
                THEN [run EXCEPT !.b = @ + 1]
                ELSE NoRun
           [] OTHER -> NoRun
    ELSE NoRun

----------------------------------------------------------------------------
(* The controller driven through its public methods, in any order *)

InitCtl ==
    /\ player = NewStreamPlayer
    /\ mplayer = NewMPlayer
    /\ sess = <<>>
    /\ vol = 0
    /\ handoffs = [k \in 0..MaxLoads |-> 0]
    /\ ctxCount = 0
    /\ panicked = FALSE
    /\ lastOp = "none"
    /\ preSt = "Stopped"
    /\ reps = 1
    /\ run = NoRun

NilReader == [pipe |-> 0, cancelled |-> FALSE]

InitUi ==
    /\ playStatus = "Stopped"
    /\ clickPc = "idle"
    /\ reader = NilReader
    /\ parserPc = "recv"
    /\ out_pipe = 0
    /\ nowPlaying = <<>>
    /\ exited = FALSE

InitParse ==
    /\ pline = <<>>
    /\ pinput = <<>>
    /\ pcuts = <<>>
    /\ pstarted = 0
    /\ ptitles = <<>>
    /\ aurl = <<>>
    /\ argv = <<>>

InitApi ==
    /\ rev \in {"stop", "pause", "mplayer"}
    /\ InitCtl
    /\ InitUi
    /\ InitParse

ApiCall(op, w) ==
    /\ ~panicked
    /\ Apply(w)
    /\ lastOp' = op
    /\ preSt' = CtlState(rev, W)
    /\ reps' = IF lastOp = op THEN 2 ELSE 1
    /\ run' = NextRun(op, W)
    /\ UNCHANGED <<rev, uiVars, parseVars>>

ApiLoad ==
    /\ rev \in {"stop", "pause"}
    /\ Len(sess) < MaxLoads
    /\ \E u \in Urls, ok \in BOOLEAN : ApiCall("Load", Load(rev, W, u, ok))

ApiPlay ==
    /\ rev \in {"stop", "pause"}
    /\ player.otoPlayer # 0 /\ player.command = 0 => Len(sess) < MaxLoads
    /\ \E ok \in BOOLEAN : ApiCall("Play", Play(rev, W, ok))

ApiIsPlaying ==
    /\ rev \in {"stop", "pause"}
    /\ ApiCall("IsPlaying", W)

ApiIsMuted ==
    /\ rev = "stop"
    /\ ApiCall("IsMuted", IsMuted(W))

ApiStop ==
    /\ rev = "stop"
    /\ ApiCall("Stop", Stop(W))

ApiClose ==
    /\ rev \in {"stop", "pause"}
    /\ ApiCall("Close", Close(rev, W))

ApiMute ==
    /\ rev \in {"stop", "pause"}
    /\ ApiCall("Mute", Mute(W))

ApiPause ==
    /\ rev = "pause"
    /\ ApiCall("Pause", Pause(W))

ApiIncVolume ==
    /\ rev \in {"stop", "pause"}
    /\ ApiCall("IncVolume", IncVolume(W))

ApiDecVolume ==
    /\ rev \in {"stop", "pause"}
    /\ ApiCall("DecVolume", DecVolume(W))

ApiMPlay ==
    /\ rev = "mplayer"
    /\ Len(sess) < MaxLoads
    /\ \E u \in Urls, ok \in BOOLEAN : ApiCall("MPlay", MPlay(W, u, ok))

ApiMClose ==
    /\ rev = "mplayer"
    /\ ApiCall("Close", MClose(W))

ApiMCommand ==
    /\ rev = "mplayer"
    /\ mplayer.is_playing => Len(sess[mplayer.in].stdin) < MaxWrites
    /\ \/ ApiCall("Mute", MMute(W))
       \/ ApiCall("Pause", MPause(W))
       \/ ApiCall("IncVolume", MIncVolume(W))
       \/ ApiCall("DecVolume", MDecVolume(W))

NextApi ==
    \/ ApiLoad
    \/ ApiPlay
    \/ ApiIsPlaying
    \/ ApiIsMuted
    \/ ApiStop
    \/ ApiClose
    \/ ApiMute
    \/ ApiPause
    \/ ApiIncVolume
    \/ ApiDecVolume
    \/ ApiMPlay
    \/ ApiMClose
    \/ ApiMCommand

SpecApi == InitApi /\ [][NextApi]_vars

----------------------------------------------------------------------------
(* The choice of the argument list on its own, for any URL *)

UrlChars == {".", "m", "3", "u", "p", "l", "s"}

UrlInputs == UNION {[1..n -> UrlChars] : n \in 0..MaxUrlLen}

InitArgs ==
    /\ rev \in {"stop", "pause", "mplayer"}
    /\ InitCtl
    /\ InitUi
    /\ pline = <<>>
    /\ pinput = <<>>
    /\ pcuts = <<>>
    /\ pstarted = 0
    /\ ptitles = <<>>
    /\ aurl \in UrlInputs
    /\ argv = <<>>

\* player.command = exec.Command(player.player_name, ...)
BuildArgs ==
    /\ argv = <<>>
    /\ argv' = IF rev = "mplayer" THEN MplayerArgs(aurl) ELSE FfmpegArgs(aurl)
    /\ UNCHANGED <<rev, ctlVars, histVars, uiVars, pline, pinput, pcuts,
                   pstarted, ptitles, aurl>>

NextArgs == BuildArgs

SpecArgs == InitArgs /\ [][NextArgs]_vars

----------------------------------------------------------------------------
(* The diagnostic parser: text is a sequence of one-character strings *)

OutputMarker == <<"O", "u", "t", "p", "u", "t", " ", "#", "0">>

TitleMarker ==
    <<"S", "t", "r", "e", "a", "m", "T", "i", "t", "l", "e", ":", " ">>

Newline == <<"\n">>

\* ffmpeg's line announcing the output stream
OutputLine == OutputMarker \o <<",", " ", "w", "a", "v">> \o Newline

\* a metadata line, with text before the marker
TitleLine == <<" ", " ">> \o TitleMarker \o <<"A", " ", "-", " ", "B">> \o Newline

OtherLine == <<"s", "i", "z", "e", "=">> \o Newline

\* strings.Contains
Contains(s, sub) ==
    \E i \in 1..(Len(s) - Len(sub) + 1) :
        \A j \in 1..Len(sub) : s[i + j - 1] = sub[j]

\* strings.Index, for a substring that occurs
IndexOf(s, sub) ==
    CHOOSE i \in 1..(Len(s) - Len(sub) + 1) :
        /\ \A j \in 1..Len(sub) : s[i + j - 1] = sub[j]
        /\ \A h \in 1..(i - 1) : \E j \in 1..Len(sub) : s[h + j - 1] # sub[j]

\* strings.Split, for a separator that is not empty
RECURSIVE Split(_, _)
Split(s, sep) ==
    IF ~Contains(s, sep) THEN <<s>>
    ELSE LET i == IndexOf(s, sep)
         IN  <<SubSeq(s, 1, i - 1)>>
                 \o Split(SubSeq(s, i + Len(sep), Len(s)), sep)

\* var data [255]byte; reader.Read(data[:]); string(data[:]):
\* the bytes read, followed by the zero bytes of the rest of the array
ReadBuffer(bytes) ==
    bytes \o [i \in 1..(BufSize - Len(bytes)) |-> "NUL"]

\* the body of "for _, line := range lines", folded over the lines:
\* started counts the lines that set playStatus = Playing,
\* titles lists the texts given to nowPlayingLabel.SetText
RECURSIVE ScanLines(_, _)
ScanLines(lines, acc) ==
    IF lines = <<>> THEN acc
    ELSE LET line == Head(lines)
             a1 == IF Contains(line, OutputMarker)
                   THEN [acc EXCEPT !.started = @ + 1]
                   ELSE acc
             a2 == IF Contains(line, TitleMarker)
                   THEN [a1 EXCEPT !.titles =
                             Append(@, Split(line, TitleMarker)[2])]
                   ELSE a1
         IN  ScanLines(Tail(lines), a2)

\* the read loop without the split into lines
ProcessChunkUnsplit(bytes) ==
    ScanLines(<<ReadBuffer(bytes)>>, [started |-> 0, titles |-> <<>>])

\* one pass of the read loop over the bytes one Read returned
ProcessChunk(bytes) ==
    ScanLines(Split(ReadBuffer(bytes), Newline),
              [started |-> 0, titles |-> <<>>])

----------------------------------------------------------------------------
(* The read loop on its own, fed one diagnostic line in pieces *)

\* text ffmpeg prints before the marker, and titles
TitlePrefixes == {<<>>, <<" ", " ">>, <<"f", "o", "r", " ">>}

Titles == {<<"A", " ", "-", " ", "B">>, <<"X">>}

TitleLines ==
    {p \o TitleMarker \o t \o Newline : p \in TitlePrefixes, t \in Titles}

ParseInputs == {OutputLine, OtherLine} \cup TitleLines

InitParseRun ==
    /\ rev = "pause"
    /\ InitCtl
    /\ InitUi
    /\ pline \in ParseInputs
    /\ pinput = pline
    /\ pcuts = <<>>
    /\ pstarted = 0
    /\ ptitles = <<>>
    /\ aurl = <<>>
    /\ argv = <<>>

\* Read returns between one byte and all the bytes that are in the pipe
ParseRead ==
    /\ pinput # <<>>
    /\ \E n \in 1..Len(pinput) :
        /\ Len(pcuts) + 1 < MaxChunks \/ n = Len(pinput)
        /\ LET r == ProcessChunk(SubSeq(pinput, 1, n))
           IN  /\ pstarted' = pstarted + r.started
               /\ ptitles' = ptitles \o r.titles
        /\ pcuts' = Append(pcuts, n)
        /\ pinput' = SubSeq(pinput, n + 1, Len(pinput))
    /\ UNCHANGED <<rev, ctlVars, histVars, uiVars, pline, aurl, argv>>

NextParse == ParseRead

SpecParse == InitParseRun /\ [][NextParse]_vars

----------------------------------------------------------------------------
(* main of the pause/resume revision: the play button, the goroutine that   *)
(* hands the diagnostic pipe over, and the goroutine that reads it          *)

InitPauseApp ==
    /\ rev = "pause"
    /\ InitCtl
    /\ InitUi
    /\ InitParse

DiagChunks == {OutputLine, TitleLine, OtherLine}

\* what one pass of the read loop makes of each of them
DiagResult == [c \in DiagChunks |-> ProcessChunk(c)]

Running == ~panicked /\ ~exited

\* streamPlayer.Load(RADIOSPIRAL_STREAM); streamPlayer.Play()
LoadAndPlay(w, ok) ==
    LET w1 == Load("pause", w, RADIOSPIRAL_STREAM, ok)
    IN  IF w1.panicked THEN w1 ELSE Play("pause", w1, ok)

\* the button is tapped: the condition, and the branch up to its first
\* access to a variable the reading goroutine shares
Click ==
    /\ Running
    /\ clickPc = "idle"
    /\ Len(sess) < MaxLoads
    /\ IF ~IsPlaying(W) /\ ~player.paused
       THEN /\ \E ok \in BOOLEAN : Apply(LoadAndPlay(W, ok))
            /\ clickPc' = "setLoading"
            /\ UNCHANGED playStatus
       ELSE IF playStatus = "Playing"
            THEN /\ playStatus' = "Paused"
                 /\ Apply(Pause(W))
                 /\ UNCHANGED clickPc
            ELSE /\ clickPc' = "cancel"
                 /\ UNCHANGED <<playStatus, ctlVars>>
    /\ UNCHANGED <<rev, histVars, reader, parserPc, out_pipe, nowPlaying,
                   exited, parseVars>>

\* playStatus = Loading, after Load and Play
ClickSetLoading ==
    /\ Running
    /\ clickPc = "setLoading"
    /\ playStatus' = "Loading"
    /\ clickPc' = "idle"
    /\ UNCHANGED <<rev, ctlVars, histVars, reader, parserPc, out_pipe,
                   nowPlaying, exited, parseVars>>

\* reader.Cancel(): a method call on a nil interface panics
ClickCancel ==
    /\ Running
    /\ clickPc = "cancel"
    /\ IF reader.pipe = 0
       THEN /\ panicked' = TRUE
            /\ UNCHANGED <<reader, clickPc>>
       ELSE /\ reader' = [reader EXCEPT !.cancelled = TRUE]
            /\ clickPc' = "status"
            /\ UNCHANGED panicked
    /\ UNCHANGED <<rev, player, mplayer, sess, vol, handoffs, ctxCount,
                   histVars, playStatus, parserPc, out_pipe, nowPlaying,
                   exited, parseVars>>

\* playStatus = Loading in the resume branch
ClickStatus ==
    /\ Running
    /\ clickPc = "status"
    /\ playStatus' = "Loading"
    /\ clickPc' = "reload"
    /\ UNCHANGED <<rev, ctlVars, histVars, reader, parserPc, out_pipe,
                   nowPlaying, exited, parseVars>>

\* streamPlayer.Load(RADIOSPIRAL_STREAM); streamPlayer.Play() in that branch
ClickReload ==
    /\ Running
    /\ clickPc = "reload"
    /\ \E ok \in BOOLEAN : Apply(LoadAndPlay(W, ok))
    /\ clickPc' = "idle"
    /\ UNCHANGED <<rev, histVars, playStatus, reader, parserPc, out_pipe,
                   nowPlaying, exited, parseVars>>

\* a hand-off goroutine starts to run: it reads player.out
HandoffEval ==
    /\ Running
    /\ handoffs[0] > 0
    /\ handoffs' = [handoffs EXCEPT ![0] = @ - 1, ![player.out] = @ + 1]
    /\ UNCHANGED <<rev, player, mplayer, sess, vol, ctxCount, panicked,
                   histVars, uiVars, parseVars>>

\* out_pipe := <-pipe_chan, with one of the goroutines blocked on the send
ParserRecv ==
    /\ Running
    /\ parserPc = "recv"
    /\ \E k \in 1..MaxLoads :
        /\ handoffs[k] > 0
        /\ handoffs' = [handoffs EXCEPT ![k] = @ - 1]
        /\ out_pipe' = k
    /\ parserPc' = "newReader"
    /\ UNCHANGED <<rev, player, mplayer, sess, vol, ctxCount, panicked,
                   histVars, playStatus, clickPc, reader, nowPlaying, exited,
                   parseVars>>

\* reader, err = cancelreader.NewReader(out_pipe); on a closed file the
\* reader is nil and the error is only logged
ParserNewReader ==
    /\ Running
    /\ parserPc = "newReader"
    /\ reader' = IF sess[out_pipe].outOpen
                 THEN [pipe |-> out_pipe, cancelled |-> FALSE]
                 ELSE NilReader
    /\ parserPc' = "read"
    /\ UNCHANGED <<rev, ctlVars, histVars, playStatus, clickPc, out_pipe,
                   nowPlaying, exited, parseVars>>

\* the last element of a sequence that is not empty
Last(q) == q[Len(q)]

\* reader.Read returns an error: the reader was cancelled, the pipe was
\* closed on this side, or the decoder is gone and nothing is left to read
ReadFails ==
    \/ reader.cancelled
    \/ ~sess[reader.pipe].outOpen
    \/ ~sess[reader.pipe].running /\ sess[reader.pipe].stderr = <<>>

\* one pass of the read loop: reader.Read, then the lines of what it read;
\* an error of Read is logged and ends the loop, back to <-pipe_chan
ParserRead ==
    /\ Running
    /\ parserPc = "read"
    /\ IF reader.pipe = 0
       THEN /\ panicked' = TRUE
            /\ UNCHANGED <<sess, playStatus, nowPlaying, parserPc>>
       ELSE IF ReadFails
            THEN /\ parserPc' = "recv"
                 /\ UNCHANGED <<sess, playStatus, nowPlaying, panicked>>
            ELSE /\ sess[reader.pipe].stderr # <<>>
                 /\ LET r == DiagResult[Head(sess[reader.pipe].stderr)]
                    IN  /\ playStatus' = IF r.started > 0 THEN "Playing"
                                         ELSE playStatus
                        /\ nowPlaying' = IF r.titles # <<>>
                                         THEN Last(r.titles)
                                         ELSE nowPlaying
                        /\ sess' = [sess EXCEPT
                               ![reader.pipe].stderr = Tail(@),
                               ![reader.pipe].started = @ + r.started,
                               ![reader.pipe].early =
                                   @ \/ (r.titles # <<>>
                                            /\ sess[reader.pipe].started = 0)]
                 /\ UNCHANGED <<parserPc, panicked>>
    /\ UNCHANGED <<rev, player, mplayer, vol, handoffs, ctxCount, histVars,
                   clickPc, reader, out_pipe, exited, parseVars>>

\* a decoder writes a piece of diagnostic text to its standard error
DecoderWrite ==
    /\ Running
    /\ \E k \in 1..Len(sess), c \in DiagChunks :
        /\ sess[k].running /\ sess[k].outOpen
        /\ sess[k].wrote < MaxDiag
        /\ sess' = [sess EXCEPT ![k].stderr = Append(@, c),
                                ![k].wrote = @ + 1,
                                ![k].marker = @ \/ Contains(c, OutputMarker)]
    /\ UNCHANGED <<rev, player, mplayer, vol, handoffs, ctxCount, panicked,
                   histVars, uiVars, parseVars>>

\* a decoder process ends by itself: the stream broke or ffmpeg failed
DecoderExit ==
    /\ Running
    /\ Cardinality({k \in 1..Len(sess) : ~sess[k].running}) < MaxExits
    /\ \E k \in 1..Len(sess) :
        /\ sess[k].running
        /\ sess' = [sess EXCEPT ![k].running = FALSE]
    /\ UNCHANGED <<rev, player, mplayer, vol, handoffs, ctxCount, panicked,
                   histVars, uiVars, parseVars>>

\* the sink player finds the end of the audio pipe of a decoder that is
\* gone: oto stops a player whose source is exhausted
SinkEof ==
    /\ Running
    /\ \E k \in 1..Len(sess) :
        /\ ~sess[k].running
        /\ sess[k].sink = "play"
        /\ sess' = [sess EXCEPT ![k].sink = "paused"]
    /\ UNCHANGED <<rev, player, mplayer, vol, handoffs, ctxCount, panicked,
                   histVars, uiVars, parseVars>>

\* window.ShowAndRun() returns; streamPlayer.Close(); main returns
Shutdown ==
    /\ Running
    /\ clickPc = "idle"
    /\ Apply(Close("pause", W))
    /\ exited' = TRUE
    /\ UNCHANGED <<rev, histVars, playStatus, clickPc, reader, parserPc,
                   out_pipe, nowPlaying, parseVars>>

NextPauseApp ==
    \/ Click
    \/ ClickSetLoading
    \/ ClickCancel
    \/ ClickStatus
    \/ ClickReload
    \/ HandoffEval
    \/ ParserRecv
    \/ ParserNewReader
    \/ ParserRead
    \/ DecoderWrite
    \/ DecoderExit
    \/ SinkEof
    \/ Shutdown

SpecPauseApp == InitPauseApp /\ [][NextPauseApp]_vars

\* The callback runs to its end once the button was tapped, and the two
\* goroutines are scheduled; taps, decoder output and closing the window
\* are up to the user and the decoder.
FairPauseApp ==
    /\ SpecPauseApp
    /\ WF_vars(ClickSetLoading)
    /\ WF_vars(ClickCancel)
    /\ WF_vars(ClickStatus)
    /\ WF_vars(ClickReload)
    /\ WF_vars(HandoffEval)
    /\ WF_vars(ParserRecv)
    /\ WF_vars(ParserNewReader)
    /\ WF_vars(ParserRead)
    /\ WF_vars(SinkEof)

----------------------------------------------------------------------------
(* The stop revision's main: the button callback and the goroutine that    *)
(* polls streamPlayer.out                                                   *)

InitStopApp ==
    /\ rev = "stop"
    /\ InitCtl
    /\ playStatus = "Stopped"
    /\ clickPc = "idle"
    /\ reader = NilReader
    /\ parserPc = "poll"
    /\ out_pipe = 0
    /\ nowPlaying = <<>>
    /\ exited = FALSE
    /\ InitParse

\* streamPlayer.Load(RADIOSPIRAL_STREAM); streamPlayer.Play()
StopLoadAndPlay(w, ok) ==
    LET w1 == Load("stop", w, RADIOSPIRAL_STREAM, ok)
    IN  IF w1.panicked THEN w1 ELSE Play("stop", w1, ok)

\* the button is tapped: the condition, and the branch up to its first
\* access to a variable the polling goroutine shares
StopClick ==
    /\ Running
    /\ clickPc = "idle"
    /\ IF ~IsPlaying(W)
       THEN /\ Len(sess) < MaxLoads
            /\ \E ok \in BOOLEAN : Apply(StopLoadAndPlay(W, ok))
            /\ clickPc' = "setLoading"
            /\ UNCHANGED playStatus
       ELSE IF playStatus = "Playing"
            THEN /\ playStatus' = "Stopped"
                 /\ clickPc' = "stop"
                 /\ UNCHANGED ctlVars
            ELSE /\ playStatus' = "Loading"
                 /\ \E ok \in BOOLEAN : Apply(StopLoadAndPlay(W, ok))
                 /\ UNCHANGED clickPc
    /\ UNCHANGED <<rev, histVars, reader, parserPc, out_pipe, nowPlaying,
                   exited, parseVars>>

\* streamPlayer.Stop() up to the last Close of a pipe: the sink and the
\* three pipes are closed, the field out still holds the closed pipe
StopClickStop ==
    /\ Running
    /\ clickPc = "stop"
    /\ LET w == Stop(W)
       IN  /\ Apply([w EXCEPT !.player.out = player.out,
                              !.player.stream_url = player.stream_url])
           /\ clickPc' = IF IsPlaying(W) /\ ~w.panicked THEN "clearOut"
                         ELSE "idle"
    /\ UNCHANGED <<rev, histVars, playStatus, reader, parserPc, out_pipe,
                   nowPlaying, exited, parseVars>>

\* player.out = nil; player.stream_url = "" at the end of Close
StopClickClearOut ==
    /\ Running
    /\ clickPc = "clearOut"
    /\ player' = [player EXCEPT !.out = 0, !.stream_url = ""]
    /\ clickPc' = "idle"
    /\ UNCHANGED <<rev, mplayer, sess, vol, handoffs, ctxCount, panicked,
                   histVars, playStatus, reader, parserPc, out_pipe,
                   nowPlaying, exited, parseVars>>

\* if streamPlayer.out != nil: the goroutine enters its read loop; while
\* the field is nil it sleeps and tests again
StopPoll ==
    /\ Running
    /\ parserPc = "poll"
    /\ player.out # 0
    /\ parserPc' = "read"
    /\ UNCHANGED <<rev, ctlVars, histVars, playStatus, clickPc, reader,
                   out_pipe, nowPlaying, exited, parseVars>>

\* streamPlayer.out.Read(data[:]): the field is read again for the call;
\* a method call on a nil interface panics
StopCallRead ==
    /\ Running
    /\ parserPc = "read"
    /\ IF player.out = 0
       THEN /\ panicked' = TRUE
            /\ UNCHANGED <<parserPc, out_pipe>>
       ELSE /\ out_pipe' = player.out
            /\ parserPc' = "inRead"
            /\ UNCHANGED panicked
    /\ UNCHANGED <<rev, player, mplayer, sess, vol, handoffs, ctxCount,
                   histVars, playStatus, clickPc, reader, nowPlaying, exited,
                   parseVars>>

\* Read returns: an error (the pipe was closed, or the decoder is gone and
\* nothing is left) ends the read loop; otherwise the lines of what was
\* read are looked at and the loop calls Read again
StopRead ==
    /\ Running
    /\ parserPc = "inRead"
    /\ IF \/ ~sess[out_pipe].outOpen
          \/ ~sess[out_pipe].running /\ sess[out_pipe].stderr = <<>>
       THEN /\ parserPc' = "poll"
            /\ UNCHANGED <<sess, playStatus, nowPlaying>>
       ELSE /\ sess[out_pipe].stderr # <<>>
            /\ LET r == DiagResult[Head(sess[out_pipe].stderr)]
               IN  /\ playStatus' = IF r.started > 0 THEN "Playing"
                                    ELSE playStatus
                   /\ nowPlaying' = IF r.titles # <<>> THEN Last(r.titles)
                                    ELSE nowPlaying
                   /\ sess' = [sess EXCEPT
                          ![out_pipe].stderr = Tail(@),
                          ![out_pipe].started = @ + r.started,
                          ![out_pipe].early =
                              @ \/ (r.titles # <<>>
                                       /\ sess[out_pipe].started = 0)]
            /\ parserPc' = "read"
    /\ UNCHANGED <<rev, player, mplayer, vol, handoffs, ctxCount, panicked,
                   histVars, clickPc, reader, out_pipe, exited, parseVars>>

\* window.ShowAndRun() returns; streamPlayer.Close(); main returns
StopShutdown ==
    /\ Running
    /\ clickPc = "idle"
    /\ Apply(Close("stop", W))
    /\ exited' = TRUE
    /\ UNCHANGED <<rev, histVars, playStatus, clickPc, reader, parserPc,
                   out_pipe, nowPlaying, parseVars>>

NextStopApp ==
    \/ StopClick
    \/ ClickSetLoading
    \/ StopClickStop
    \/ StopClickClearOut
    \/ StopPoll
    \/ StopCallRead
    \/ StopRead
    \/ DecoderWrite
    \/ DecoderExit
    \/ SinkEof
    \/ StopShutdown

SpecStopApp == InitStopApp /\ [][NextStopApp]_vars

----------------------------------------------------------------------------
(* The line-command (mplayer) variant's main: the button callback and the  *)
(* goroutine that reads the decoder's output.  status_chan is made without *)
(* a buffer and main holds no receive from it, so a send on it has no      *)
(* step that completes it.                                                  *)

InitMplayerApp ==
    /\ rev = "mplayer"
    /\ InitCtl
    /\ playStatus = FALSE
    /\ clickPc = "idle"
    /\ reader = NilReader
    /\ parserPc = "recv"
    /\ out_pipe = 0
    /\ nowPlaying = <<>>
    /\ exited = FALSE
    /\ InitParse

\* the button is tapped; play_status is only used by the callback
MClick ==
    /\ Running
    /\ IF ~mplayer.is_playing
       THEN /\ Len(sess) < MaxLoads
            /\ \E ok \in BOOLEAN : Apply(MPlay(W, RADIOSPIRAL_STREAM, ok))
            /\ playStatus' = TRUE
       ELSE /\ Len(sess[mplayer.in].stdin) < MaxWrites
            /\ playStatus' = ~playStatus
            /\ Apply(MPause(W))
    /\ UNCHANGED <<rev, histVars, clickPc, reader, parserPc, out_pipe,
                   nowPlaying, exited, parseVars>>

\* the hand-off goroutine of Play starts to run: it reads player.out
MHandoffEval ==
    /\ Running
    /\ handoffs[0] > 0
    /\ handoffs' = [handoffs EXCEPT ![0] = @ - 1, ![mplayer.out] = @ + 1]
    /\ UNCHANGED <<rev, player, mplayer, sess, vol, ctxCount, panicked,
                   histVars, uiVars, parseVars>>

\* out_pipe := <-pipe_chan; reader := bufio.NewReader(out_pipe)
MReaderRecv ==
    /\ Running
    /\ parserPc = "recv"
    /\ \E k \in 1..MaxLoads :
        /\ handoffs[k] > 0
        /\ handoffs' = [handoffs EXCEPT ![k] = @ - 1]
        /\ out_pipe' = k
    /\ parserPc' = "readString"
    /\ UNCHANGED <<rev, player, mplayer, sess, vol, ctxCount, panicked,
                   histVars, playStatus, clickPc, reader, nowPlaying, exited,
                   parseVars>>

\* data, err := reader.ReadString('\n'): a line, or an error when the pipe
\* was closed or the decoder is gone and nothing is left; the goroutine
\* goes on to the send of the line, or of "Playing stopped"
MReaderReadString ==
    /\ Running
    /\ parserPc = "readString"
    /\ IF \/ ~sess[out_pipe].outOpen
          \/ ~sess[out_pipe].running /\ sess[out_pipe].stderr = <<>>
       THEN /\ parserPc' = "sendStopped"
            /\ UNCHANGED sess
       ELSE /\ sess[out_pipe].stderr # <<>>
            /\ sess' = [sess EXCEPT ![out_pipe].stderr = Tail(@)]
            /\ parserPc' = "sendData"
    /\ UNCHANGED <<rev, player, mplayer, vol, handoffs, ctxCount, panicked,
                   histVars, playStatus, clickPc, reader, out_pipe,
                   nowPlaying, exited, parseVars>>

\* window.ShowAndRun() returns; mplayer.Close(); main returns
MShutdown ==
    /\ Running
    /\ Apply(MClose(W))
    /\ exited' = TRUE
    /\ UNCHANGED <<rev, histVars, playStatus, clickPc, reader, parserPc,
                   out_pipe, nowPlaying, parseVars>>

NextMplayerApp ==
    \/ MClick
    \/ MHandoffEval
    \/ MReaderRecv
    \/ MReaderReadString
    \/ DecoderWrite
    \/ DecoderExit
    \/ MShutdown

SpecMplayerApp == InitMplayerApp /\ [][NextMplayerApp]_vars

\* the goroutines are scheduled; taps, decoder output and closing the
\* window are up to the user and the decoder
FairMplayerApp ==
    /\ SpecMplayerApp
    /\ WF_vars(MHandoffEval)
    /\ WF_vars(MReaderRecv)
    /\ WF_vars(MReaderReadString)

----------------------------------------------------------------------------
(* The pause/resume controller called through its methods in any order,    *)
(* with the hand-off goroutines and the goroutine that reads the            *)
(* diagnostics running beside the caller                                    *)

NextCtlReader ==
    \/ ApiLoad /\ Len(sess) < MaxCtlLoads
    \/ ApiPlay
    \/ ApiPause
    \/ ApiClose
    \/ HandoffEval
    \/ ParserRecv
    \/ ParserNewReader
    \/ ParserRead
    \/ DecoderWrite

SpecCtlReader == InitPauseApp /\ [][NextCtlReader]_vars

\* the goroutines are scheduled; calls and decoder output are not forced
FairCtlReader ==
    /\ SpecCtlReader
    /\ WF_vars(HandoffEval)
    /\ WF_vars(ParserRecv)
    /\ WF_vars(ParserNewReader)
    /\ WF_vars(ParserRead)

----------------------------------------------------------------------------
(* Claims *)

Active == {"Loading", "Playing", "Paused"}

QueryOps ==
    {"IsPlaying", "IsMuted", "Play", "Pause", "Stop", "Mute", "IncVolume",
     "DecVolume", "Close"}

\* C1: in every reachable state at most one decoder subprocess, with its
\* pipes and its sink player, is live, whatever the sequence of taps on
\* the play button.
C1_AtMostOneLiveDecoder == Cardinality(LiveSet(sess)) <= 1

C3_CloseReleasesSession ==
    (lastOp \in {"Close", "Stop"} /\ rev # "mplayer" /\ preSt \in Active)
        => /\ CtlState(rev, W) = "Stopped"
           /\ Released(sess[player.otoPlayer])
           /\ ~IsPlaying(W)

\* C4: once the decoder of the loaded session has written the start marker,
\* a play status of Loading is eventually replaced by Playing (unless the
\* application has ended).
C4_MarkerLeadsToPlaying ==
    (/\ player.otoPlayer # 0
     /\ sess[player.otoPlayer].marker
     /\ playStatus = "Loading")
        ~> (playStatus = "Playing" \/ exited \/ panicked)

\* C5: after any sequence of calls, currentVolume and the volume of the
\* sink lie within [0.0, 1.0].
C5_VolumeInRange ==
    /\ player.currentVolume \in 0..VolMax
    /\ vol \in 0..VolMax

\* IncVolume was called while Playing at 1.0, where the sum leaves the range
C5_Witness ==
    /\ lastOp = "IncVolume"
    /\ preSt = "Playing"
    /\ run.kind = "vol"
    /\ run.a = 1
    /\ run.c0 = VolMax
    /\ player.currentVolume = VolMax
    /\ vol = VolMax

C7_MuteTwiceRestores ==
    run.kind = "mute"
        => /\ run.a % 2 = 0 => vol = run.s0
           /\ (IF vol > 0 THEN vol ELSE player.currentVolume)
                  = (IF run.s0 > 0 THEN run.s0 ELSE run.c0)

\* Mute was called twice at a volume strictly between 0.0 and 1.0
C7_Witness ==
    /\ run.kind = "mute"
    /\ run.a = 2
    /\ run.s0 > 0
    /\ run.s0 < VolMax
    /\ vol = run.s0
    /\ lastOp = "Mute"

\* C8: no public method other than Load, called before the first Load or
\* after Close/Stop, panics.
C8_NoCrashWhenNotLoaded ==
    ~(panicked /\ preSt = "Stopped" /\ lastOp \in QueryOps)

\* C9: Stop called in Stopped, and a Close called directly after a Close,
\* change no field of the controller, write to no pipe and do not panic.
C9_StopCloseIdempotent ==
    [][(\/ lastOp' = "Stop" /\ CtlState(rev, W) = "Stopped"
        \/ lastOp' = "Close" /\ reps' = 2)
           => UNCHANGED ctlVars]_vars

\* Close was called directly after the Close that tore a session down
C9_Witness ==
    /\ lastOp = "Close"
    /\ reps = 2
    /\ preSt = "Stopped"
    /\ Len(sess) > 0
    /\ Released(sess[Len(sess)])

\* C10: however the bytes of the line with the start marker are split
\* across reads, the parser produces exactly one playback-started event.
C10_ExactlyOneStarted ==
    (pline = OutputLine /\ pinput = <<>>) => pstarted = 1

\* C13: a Load whose decoder cannot be started leaves the controller as it
\* was before the call (no handle, URL or sink player recorded for the
\* attempt) and does not bring the process down.
C13_FailedLoadLeavesControllerUnchanged ==
    [][(/\ lastOp' = "Load"
        /\ Len(sess') > Len(sess)
        /\ ~sess'[Len(sess')].running)
           => (player' = player /\ ~panicked')]_vars

\* C17: Pause called while the sink is producing sound leaves the state
\* Paused and the sink silent, also when it is the second Pause of
\* Pause; Play; Pause.
C17_PauseWhilePlayingPauses ==
    (rev = "pause" /\ lastOp = "Pause" /\ preSt = "Playing")
        => (CtlState(rev, W) = "Paused" /\ ~IsPlaying(W))

\* C18: Play called on a session that Stop/Close tore down (its sink player
\* is closed) spawns a fresh decoder through Load and starts the sink of
\* the new session.
C18_PlayAfterCloseReloads ==
    [][(/\ lastOp' = "Play"
        /\ rev # "mplayer"
        /\ player.otoPlayer # 0
        /\ sess[player.otoPlayer].sink = "closed")
           => (/\ Len(sess') = Len(sess) + 1
               /\ player'.otoPlayer = Len(sess')
               /\ sess'[Len(sess')].sink = "play")]_vars

\* C19: Mute called in any state in which a sink player exists (Loading,
\* Playing, Paused) toggles the sink volume between 0.0 and the remembered
\* value.
C19_MuteWheneverSinkExists ==
    [][(/\ lastOp' = "Mute"
        /\ rev # "mplayer"
        /\ CtlState(rev, W) \in Active)
           => vol' = (IF vol > 0 THEN 0 ELSE player.currentVolume)]_vars

\* C20: IncVolume and DecVolume called in a state other than Playing leave
\* currentVolume and the sink volume as they were; called while Playing
\* they move currentVolume by one step of 0.05, or to the bound 0.0 or 1.0
\* the step would cross, and give the sink that volume.
C20_VolumeStepOnlyWhilePlaying ==
    [][(lastOp' \in {"IncVolume", "DecVolume"} /\ rev # "mplayer")
           => IF CtlState(rev, W) = "Playing"
              THEN LET t == IF lastOp' = "IncVolume"
                            THEN player.currentVolume + VolStep
                            ELSE player.currentVolume - VolStep
                       c == IF t > VolMax THEN VolMax
                            ELSE IF t < 0 THEN 0 ELSE t
                   IN  /\ player'.currentVolume = c
                       /\ vol' = c
              ELSE /\ player'.currentVolume = player.currentVolume
                   /\ vol' = vol]_vars

\* DecVolume was called while Paused, below 1.0, and changed nothing
C20_Witness ==
    /\ rev = "pause"
    /\ lastOp = "DecVolume"
    /\ preSt = "Paused"
    /\ player.currentVolume = VolMax - VolStep
    /\ vol = player.currentVolume

\* C14: the argument list built for a URL contains "-playlist" if and only
\* if the URL ends in ".m3u" or ".pls", in the ffmpeg and in the mplayer
\* variant; the URL itself is always in the list.
C14_PlaylistFlagIffSuffix ==
    argv # <<>>
        => /\ (\E i \in 1..Len(argv) : argv[i] = PlaylistFlag)
                <=> (/\ Len(aurl) >= 4
                     /\ <<aurl[Len(aurl) - 3], aurl[Len(aurl) - 2],
                          aurl[Len(aurl) - 1], aurl[Len(aurl)]>>
                            \in {<<".", "m", "3", "u">>,
                                 <<".", "p", "l", "s">>})
           /\ \E i \in 1..Len(argv) : argv[i] = aurl

\* the list was built for a URL that has ".m3u" in it, but not at its end
C14_Witness ==
    /\ aurl = <<".", "m", "3", "u", "s">>
    /\ rev = "pause"
    /\ argv = <<LoglevelFlag, VerboseArg, InputFlag, aurl, FormatFlag,
                WavArg, StdoutArg>>

\* C15: for a line <prefix>"StreamTitle: "<T> and a newline, delivered by
\* one read, the parser hands over one title and it is T: nothing of the
\* prefix, no newline and none of the zero bytes of the buffer.
C15_TitleIsExactlyT ==
    \A p \in TitlePrefixes, t \in Titles :
        (/\ pline = p \o TitleMarker \o t \o Newline
         /\ pinput = <<>>
         /\ Len(pcuts) = 1)
            => ptitles = <<t>>

\* a line with text before the marker was read at once
C15_Witness ==
    /\ pline = <<"f", "o", "r", " ">> \o TitleMarker
                   \o <<"A", " ", "-", " ", "B">> \o Newline
    /\ pinput = <<>>
    /\ pcuts = <<Len(pline)>>
    /\ ptitles = <<<<"A", " ", "-", " ", "B">>>>

\* C11: within one session the reading goroutine sets the status to Playing
\* at most once, however many lines carry the start marker, and hands over
\* no title before it has done so.
C11_StartedOnceBeforeTitles ==
    \A k \in 1..Len(sess) : sess[k].started <= 1 /\ ~sess[k].early

\* C12: when the decoder of the loaded session has exited while the status
\* is Playing or Loading, the status eventually becomes Stopped (unless a
\* new session is loaded or the application ends).
C12_DecoderExitLeadsToStopped ==
    \A k \in 1..MaxLoads :
        (/\ Len(sess) >= k
         /\ player.otoPlayer = k
         /\ ~sess[k].running
         /\ playStatus \in {"Playing", "Loading"})
            ~> (\/ playStatus = "Stopped"
                \/ player.otoPlayer # k
                \/ exited
                \/ panicked)

\* C16: after Close called on a session (Loading, Playing or Paused) whose
\* pipe the read loop is reading, the loop eventually leaves that pipe and
\* is back at waiting for the next one.
C16_ReadLoopLeavesClosedSession ==
    \A k \in 1..MaxLoads :
        (/\ lastOp = "Close"
         /\ preSt \in Active
         /\ player.out = k
         /\ out_pipe = k
         /\ parserPc = "read")
            ~> (parserPc = "recv" \/ out_pipe # k \/ panicked)

\* C22: the audio context is created at most once in a run and is never
\* reset: every sink player comes from that one context.
C22_ContextCreatedOnce ==
    /\ ctxCount <= 1
    /\ player.otoContext <=> ctxCount = 1
    /\ \A k \in 1..Len(sess) : sess[k].sink # "none" => ctxCount = 1

\* two sessions got their sink players, the first was closed in between
C22_Witness ==
    /\ Len(sess) = 2
    /\ sess[1].sink = "closed"
    /\ sess[2].sink # "none"
    /\ ctxCount = 1

\* C27: whenever a sink player exists its volume is 0.0 or currentVolume.
C27_SinkVolumeZeroOrRemembered ==
    player.otoPlayer # 0 => vol \in {0, player.currentVolume}

\* the sink is muted while a volume below 1.0 is remembered
C27_Witness ==
    /\ lastOp = "Mute"
    /\ preSt = "Playing"
    /\ vol = 0
    /\ player.currentVolume = VolMax - VolStep

\* C24: reader.Cancel() in the button callback is never executed on an
\* unset (nil) reader.  The callback stands at Cancel and the program has
\* panicked while the parser goroutine was not in its read loop: the panic
\* is the one of Cancel on nil.
C24_CancelOnlyOnSetReader ==
    ~(panicked /\ clickPc = "cancel" /\ reader.pipe = 0
        /\ parserPc # "read")

\* C25: whenever the session of the last Load is live and the callback is
\* not running, the parser reads that session's pipe or a hand-off of that
\* pipe is still pending.
C25_LiveSessionHasParser ==
    (/\ Running
     /\ clickPc = "idle"
     /\ player.out # 0
     /\ sess[player.out].running
     /\ sess[player.out].outOpen)
        => \/ handoffs[0] > 0
           \/ handoffs[player.out] > 0
           \/ parserPc = "newReader" /\ out_pipe = player.out
           \/ /\ parserPc = "read"
              /\ reader.pipe = player.out
              /\ ~reader.cancelled

\* C21: every piece of diagnostic text from which the parser sets the play
\* status or the title comes from the pipe of the most recent Load.
C21_ParserReadsOnlyNewestPipe ==
    [][\A k \in 1..Len(sess) :
          (/\ Len(sess') = Len(sess)
           /\ parserPc = "read"
           /\ sess[k].stderr # <<>>
           /\ sess'[k].stderr = Tail(sess[k].stderr)
           /\ sess'[k].wrote = sess[k].wrote
           /\ \/ DiagResult[Head(sess[k].stderr)].started > 0
              \/ DiagResult[Head(sess[k].stderr)].titles # <<>>)
              => k = player.out]_vars

\* C26: whenever the play status is Playing and the callback is not
\* running, the sink is producing sound.
C26_PlayingStatusMeansSound ==
    (Running /\ clickPc = "idle" /\ playStatus = "Playing") => IsPlaying(W)

\* C23: in the stop revision the polling goroutine never calls Read on a
\* nil pipe.  The goroutine stands at the call, the field is nil and the
\* program has panicked: the panic is the one of that call.
C23_NoReadOnNilPipe ==
    ~(rev = "stop" /\ panicked /\ parserPc = "read" /\ player.out = 0)

\* C28: in the mplayer variant the output reader is never blocked for ever
\* on a send: a line it read is handed over and it reads on, and after the
\* end of the stream it is back at the receive from the pipe channel
\* (unless the program has ended).
C28_OutputReaderMakesProgress ==
    /\ (parserPc = "sendData") ~> (parserPc = "readString" \/ ~Running)
    /\ (parserPc = "sendStopped") ~> (parserPc = "recv" \/ ~Running)

====
